---- MODULE Spec2Model ----
(***************************************************************************)
(* Model of the auto-deploy watcher (src/deploy_watcher.py) and of the     *)
(* deployment agent it runs as a child process (src/deploy_agent.py).      *)
(*                                                                         *)
(* The watcher is one sequential process; pc is its position in            *)
(* DeployWatcher.run.  While pc = "agent" the child process is inside      *)
(* DeploymentAgent.run and stage is the step it is about to execute.       *)
(* The hosting API, the archive contents, the container tooling and the    *)
(* on-disk working trees are the environment: their answers are inputs     *)
(* drawn with \E, their state (upstream revisions, working trees) is kept  *)
(* in variables.                                                           *)
(***************************************************************************)
EXTENDS Naturals, Sequences, FiniteSets, TLC

\* ------------------------------------------------------------------ bounds

\* Number of pushes the upstream repositories receive during a run.
MaxPushes == 1

\* Number of times somebody outside the agent touches a working tree.
MaxTreeEdits == 1

\* ------------------------------------------------------------------ values

\* Python's None, as returned by get_latest_commit_sha on any failure.
None == "<None>"

\* Commit hashes of the upstream repositories (opaque strings).
Shas == {"abc123", "def456"}

\* What a tracked or observed revision can be.
Revisions == {None} \cup Shas

\* Truth value of a Python object used as a condition (None and "" are falsy).
Truthy(v) == v # None /\ v # ""

\* States of a working-tree directory on disk.
TreeStates == {"absent", "empty", "content"}

\* The paths of a tree that the file-level model follows, relative to the
\* tree's root ".": an entry "x", a file "Dockerfile", and the same two names
\* inside "x" when "x" is a directory.
Paths == {".", "x", "Dockerfile", "x/x", "x/Dockerfile"}

\* The last component of a path, and the directory that holds it.
Name(p) == IF p \in {"x", "x/x"} THEN "x"
           ELSE IF p \in {"Dockerfile", "x/Dockerfile"} THEN "Dockerfile"
           ELSE "."
Parent(p) == IF p \in {"x/x", "x/Dockerfile"} THEN "x" ELSE "."

\* The path of the entry called n in directory d.
Child(d, n) == CHOOSE p \in Paths \ {"."} : Parent(p) = d /\ Name(p) = n

\* What a path holds: nothing, a directory, or a file with some content.
IsFile(e) == e \notin {"absent", "dir"}

\* The trees whose files all have content c: the root is a directory, only
\* "x" can be a directory besides it, and entries live in directories.
Trees(c) ==
    {t \in [Paths -> {"absent", "dir", c}] :
        /\ t["."] = "dir"
        /\ \A p \in {"Dockerfile", "x/x", "x/Dockerfile"} : t[p] # "dir"
        /\ t["x"] # "dir" => (t["x/x"] = "absent" /\ t["x/Dockerfile"] = "absent")}

\* No tree at all (the directory does not exist), and a directory without
\* entries.
NoTree == [p \in Paths |-> "absent"]
EmptyRoot == [p \in Paths |-> IF p = "." THEN "dir" ELSE "absent"]

\* The state of a directory as verify_repo_cloned sees it.
TreeState(t) ==
    IF t["."] = "absent" THEN "absent"
    ELSE IF \A p \in Paths \ {"."} : Parent(p) = "." => t[p] = "absent" THEN "empty"
    ELSE "content"

\* What the downloaded file can be: not a zip, a zip without members, a zip
\* whose first member names the root folder of a tree.
ArchiveKinds == {"bad_zip", "no_members", "tree"}

VARIABLES
    \* --- configuration, fixed at construction
    github_token,     \* TRUE iff .env.local exists and defines GITHUB_TOKEN
    fe_url_ok,        \* TRUE iff extract_repo_info accepts FE_REPO_URL
    be_url_ok,        \* TRUE iff extract_repo_info accepts BE_REPO_URL
    in_docker,        \* is_running_in_docker()
    manifest,         \* docker-compose.yml exists in base_dir
    \* --- environment
    up_fe, up_be,     \* latest upstream revision of each repository
    pushes,           \* pushes so far
    frontend_dir,     \* state of base_dir/frontend
    backend_dir,      \* state of base_dir/backend
    be_requirements,  \* backend_dir/requirements.txt exists
    tree_edits,       \* outside edits of the working trees so far
    \* --- DeployWatcher
    pc,               \* position in DeployWatcher.run
    fe_last_sha, be_last_sha,   \* the tracked revisions
    fe_sha, be_sha,   \* what the last check_for_updates returned
    fe_updated, be_updated, has_updates,
    result,           \* what trigger_redeploy returned
    \* --- DeploymentAgent (child process of trigger_redeploy)
    stage,            \* step DeploymentAgent.run is about to execute
    ran,              \* steps executed in this cycle, with their outcome
    cmds,             \* container commands issued in this cycle
    rebuild_runs,     \* trigger_redeploy's own rebuild commands, and their ends
    hung,             \* the agent waits for an operation that does not return
    orphan,           \* a command spawned by a killed agent is still running
    \* --- history of the run
    outcome,          \* how the current iteration went (see Outcomes)
    prev_outcome,     \* how the iteration before it went
    same_poll,        \* the current poll returned what the poll before it did
    api_log,          \* the kinds of request sent to the hosting API so far
    \* --- one call of DeploymentAgent.clone_repository, file by file
    fpc,              \* position in clone_repository ("idle": not called)
    zip_kind,         \* what the downloaded file is (see ArchiveKinds)
    fetched,          \* the tree under the archive's root folder
    target,           \* the tree at target_dir
    target0,          \* the tree at target_dir when clone_repository was called
    wdir,             \* the directory os.walk is in during _merge_directories
    done,             \* the fetched files _merge_directories has dealt with
    raised,           \* an exception is propagating out of the inner try block
    tmp_zip,          \* the temporary archive file exists
    extract_temp,     \* the temporary extraction directory exists
    fetch_result,     \* what clone_repository returned ("none": not yet)
    fs_ops,           \* which of "merge" and "rename" the call has performed
    copy_log,         \* how the calls of shutil.copy2 for the last file ended
    \* --- one call of DeploymentAgent.deploy, with what its commands do
    deploy_in,        \* what the commands of the call yield (see DeployInputs)
    deploy_out,       \* what the call issued and returned (<<>>: not yet)
    \* --- history of the revisions, kept only in RaceSpec
    versions          \* which revision was polled, downloaded and recorded

config_vars == <<github_token, fe_url_ok, be_url_ok, in_docker, manifest>>
env_vars    == <<up_fe, up_be, pushes, frontend_dir, backend_dir, be_requirements, tree_edits>>
tree_vars   == <<frontend_dir, backend_dir, be_requirements>>
poll_vars   == <<fe_sha, be_sha, fe_updated, be_updated, has_updates>>
agent_vars  == <<stage, ran, cmds, rebuild_runs>>
hist_vars   == <<outcome, prev_outcome, same_poll>>
child_vars  == <<hung, orphan>>
tracked     == <<fe_last_sha, be_last_sha>>
watch_vars  == <<pc, fe_last_sha, be_last_sha, fe_sha, be_sha, fe_updated,
                 be_updated, has_updates, result, stage, ran, cmds, rebuild_runs,
                 hung, orphan, outcome, prev_outcome, same_poll, api_log>>
fetch_vars  == <<fpc, zip_kind, fetched, target, target0, wdir, done, raised,
                 tmp_zip, extract_temp, fetch_result, fs_ops, copy_log>>
deploy_vars == <<deploy_in, deploy_out>>

vars == <<github_token, fe_url_ok, be_url_ok, in_docker, manifest,
          up_fe, up_be, pushes, frontend_dir, backend_dir, be_requirements,
          tree_edits, pc, fe_last_sha, be_last_sha, fe_sha, be_sha,
          fe_updated, be_updated, has_updates, result, stage, ran, cmds,
          rebuild_runs, hung, orphan, outcome, prev_outcome, same_poll, api_log,
          fpc, zip_kind, fetched, target, target0, wdir, done, raised,
          tmp_zip, extract_temp, fetch_result, fs_ops, copy_log,
          deploy_in, deploy_out, versions>>

\* ------------------------------------------------------------ the pipeline

\* (mutant) the two setup steps called in the other order.
StagesSetupSwapped == <<"clone_fe", "clone_be", "setup_frontend", "setup_backend",
                        "build_docker_images", "deploy">>

\* The steps of DeploymentAgent.run, in the order the code calls them.
Stages == <<"clone_fe", "clone_be", "setup_backend", "setup_frontend",
            "build_docker_images", "deploy">>

\* Where a cycle can fail: in a step of the agent, by the agent's timeout, or
\* in the watcher's own rebuild.
FailPoints == {Stages[i] : i \in 1..Len(Stages)} \cup {"timeout", "rebuild"}

\* How an iteration of the watch loop goes: "startup" before the first one,
\* "no_updates" if the poll found nothing, "running" while the cycle runs,
\* "success" if trigger_redeploy returned True, else the point of failure;
\* "interrupted" once a KeyboardInterrupt has ended the process.
Outcomes == {"startup", "no_updates", "running", "success", "interrupted"}
                \cup FailPoints

\* ------------------------------------------------------------------- Init

\* The file-level model of clone_repository is not running.
FetchIdle ==
    /\ fpc = "idle"
    /\ zip_kind = "tree"
    /\ fetched = EmptyRoot
    /\ target = NoTree
    /\ target0 = NoTree
    /\ wdir = "."
    /\ done = {}
    /\ raised = FALSE
    /\ tmp_zip = FALSE
    /\ extract_temp = FALSE
    /\ fetch_result = FALSE
    /\ fs_ops = {}
    /\ copy_log = <<>>

\* DeploymentAgent.deploy is not followed command by command.
DeployIdle ==
    /\ deploy_in = "none"
    /\ deploy_out = <<>>

\* The two tracked repositories.
Repos == {"fe", "be"}

\* The branch get_latest_commit_sha asks for: its parameter branch="main",
\* which no caller passes.
polled_branch == "main"

\* What the lookup of the repository's metadata tells clone_repository: the
\* default branch, or nothing (another status than 200, or an exception).
Lookups == {"main", "develop", "failed"}

\* The value of versions when the history of the revisions is not kept.
Untracked == [on |-> FALSE]

\* The history when the watcher starts.  Revisions of the polled branch are
\* numbered in the order they are pushed; 0 stands for no revision.
\*   ver     the number of the latest upstream revision
\*   seen    the revision the last poll returned
\*   branch  the branch whose archive was requested since that poll
\*   got     the revision downloaded since that poll, if of the polled branch
\*   kept    the revision the tracker holds
NoHistory ==
    [on |-> TRUE,
     ver |-> [r \in Repos |-> 1],
     seen |-> [r \in Repos |-> 0],
     branch |-> [r \in Repos |-> "none"],
     got |-> [r \in Repos |-> 0],
     kept |-> [r \in Repos |-> 0]]

\* The revision number of what a request for the latest revision returned.
observed(h, r, sha) == IF sha = None THEN 0 ELSE h.ver[r]

\* The history after a push to repository r.
pushed(h, r) == IF h.on THEN [h EXCEPT !.ver[r] = @ + 1] ELSE h

\* The history after the startup has set the tracked revisions to f and b.
started(h, f, b) ==
    IF h.on THEN [h EXCEPT !.kept = [fe |-> observed(h, "fe", f),
                                     be |-> observed(h, "be", b)]]
    ELSE h

\* The history after a poll has returned f and b.
polled(h, f, b) ==
    IF h.on THEN [h EXCEPT !.seen = [fe |-> observed(h, "fe", f),
                                     be |-> observed(h, "be", b)],
                           !.branch = [r \in Repos |-> "none"],
                           !.got = [r \in Repos |-> 0]]
    ELSE h

\* The history after clone_repository has requested the archive of branch
\* for repository r ("none": no request) and has or has not received it.
downloaded(h, r, branch, received) ==
    IF h.on /\ branch # "none"
      THEN [h EXCEPT !.branch[r] = branch,
                     !.got[r] = IF received /\ branch = polled_branch
                                  THEN h.ver[r] ELSE 0]
      ELSE h

\* The history after the tracked revisions have been set to f and b, each
\* the polled revision or the one tracked before.
recorded(h, f, b) ==
    IF h.on THEN [h EXCEPT !.kept = [fe |-> IF f = fe_sha /\ f # None
                                             THEN h.seen["fe"] ELSE h.kept["fe"],
                                     be |-> IF b = be_sha /\ b # None
                                             THEN h.seen["be"] ELSE h.kept["be"]]]
    ELSE h

\* DeployWatcher.__init__: both tracked revisions start as None.  The
\* configuration and the disk are whatever the deployment provides.
Boot ==
    /\ github_token \in BOOLEAN
    /\ fe_url_ok \in BOOLEAN
    /\ be_url_ok \in BOOLEAN
    /\ in_docker \in BOOLEAN
    /\ manifest \in BOOLEAN
    /\ up_fe = "abc123"
    /\ up_be = "def456"
    /\ pushes = 0
    /\ frontend_dir \in {"absent", "content"}
    /\ backend_dir = frontend_dir
    /\ be_requirements = (backend_dir = "content")
    /\ tree_edits = 0
    /\ pc = "startup"
    /\ fe_last_sha = None
    /\ be_last_sha = None
    /\ fe_sha = None
    /\ be_sha = None
    /\ fe_updated = FALSE
    /\ be_updated = FALSE
    /\ has_updates = FALSE
    /\ result = FALSE
    /\ stage = 0
    /\ ran = <<>>
    /\ cmds = <<>>
    /\ rebuild_runs = <<>>
    /\ hung = FALSE
    /\ orphan = FALSE
    /\ outcome = "startup"
    /\ prev_outcome = "startup"
    /\ same_poll = FALSE
    /\ api_log = {}
    /\ FetchIdle
    /\ DeployIdle

Init == Boot /\ versions = Untracked

\* ------------------------------------------------------------ environment

\* Somebody pushes to one of the two upstream repositories.
Push ==
    /\ pushes < MaxPushes
    /\ pc \notin {"exit0", "exit1"}
    /\ pushes' = pushes + 1
    /\ \/ /\ \E s \in Shas \ {up_fe} : up_fe' = s /\ up_be' = up_be
          /\ versions' = pushed(versions, "fe")
       \/ /\ \E s \in Shas \ {up_be} : up_be' = s /\ up_fe' = up_fe
          /\ versions' = pushed(versions, "be")
    /\ UNCHANGED <<config_vars, fetch_vars, deploy_vars, child_vars, api_log, tree_vars, tree_edits, pc, tracked, poll_vars,
                   result, agent_vars, hist_vars>>

\* Somebody outside the agent empties a working tree while a cycle runs (the
\* trees live on a mounted volume of the host).  An edit made before the
\* clones is overlaid by them; the ones that matter come after.
TreeEdit ==
    /\ tree_edits < MaxTreeEdits
    /\ pc = "agent"
    /\ stage > 2
    /\ tree_edits' = tree_edits + 1
    /\ \/ /\ frontend_dir = "content"
          /\ frontend_dir' = "empty"
          /\ UNCHANGED <<backend_dir, be_requirements>>
       \/ /\ backend_dir = "content"
          /\ backend_dir' = "empty"
          /\ be_requirements' = FALSE
          /\ UNCHANGED frontend_dir
    /\ UNCHANGED <<config_vars, fetch_vars, deploy_vars, versions, child_vars, api_log, up_fe, up_be, pushes, pc, tracked, poll_vars,
                   result, agent_vars, hist_vars>>

\* --------------------------------------------------------- DeployWatcher

\* Answers of GET /repos/{owner}/{repo}/commits/main as the code tells them
\* apart: 200 with a sha, 200 whose body has no "sha", another status, an
\* exception (timeout, connection error).
Responses == {"200", "200_no_sha", "non_200", "exception"}

\* get_latest_commit_sha: the sha of a 200 answer, None on anything else.
get_latest_commit_sha(resp, upstream) ==
    IF resp = "200" THEN upstream ELSE None

\* extract_repo_info raises ValueError on a malformed url; both urls are
\* parsed before the first request is made.
extract_repo_info_raises == ~fe_url_ok \/ ~be_url_ok

\* The requests of one poll: get_latest_commit_sha for each repository, with
\* the Authorization header only if a token is configured.  No request is
\* made if a url is malformed.
commit_lookups ==
    IF extract_repo_info_raises THEN {}
    ELSE {[kind |-> "commits", auth |-> github_token]}

\* (mutant) a failed observation counts as a change.
updated_without_truth_test(sha, last_sha) == sha # last_sha

\* (mutant) a repository whose tracked revision is unknown never changes.
updated_only_if_known(sha, last_sha) ==
    Truthy(sha) /\ Truthy(last_sha) /\ sha # last_sha

\* (mutant) every observed revision counts as a change.
updated_whenever_observed(sha, last_sha) == Truthy(sha)

\* fe_updated / be_updated of check_for_updates, as a truth value.
updated(sha, last_sha) == Truthy(sha) /\ sha # last_sha

\* (mutant) the observed revision is not stored.
committed_never(sha, last_sha) == last_sha

\* (mutant) the poll's result is stored whether or not it is a revision.
committed_unconditionally(sha, last_sha) == sha

\* The value a tracked revision takes when a cycle has succeeded.
committed(sha, last_sha) == IF Truthy(sha) THEN sha ELSE last_sha

\* (mutant) the revisions are advanced whatever trigger_redeploy returned.
redeploy_succeeded_always(r) == TRUE

\* (mutant) the test is inverted.
redeploy_succeeded_inverted(r) == r = FALSE

\* The test of "if self.trigger_redeploy():".
redeploy_succeeded(r) == r = TRUE

\* run, before the loop: resolve the initial revisions.  Any exception is
\* logged and the loop is entered all the same.
startup ==
    /\ pc = "startup"
    /\ IF extract_repo_info_raises
         THEN UNCHANGED <<tracked, versions>>
         ELSE \E rf \in Responses, rb \in Responses :
                /\ fe_last_sha' = get_latest_commit_sha(rf, up_fe)
                /\ be_last_sha' = get_latest_commit_sha(rb, up_be)
                /\ versions' = started(versions, get_latest_commit_sha(rf, up_fe),
                                       get_latest_commit_sha(rb, up_be))
    /\ pc' = "check"
    /\ api_log' = api_log \cup commit_lookups
    /\ UNCHANGED <<config_vars, fetch_vars, deploy_vars, child_vars, env_vars, poll_vars, result,
                   agent_vars, hist_vars>>

\* check_for_updates, called by an iteration of the loop.  A malformed url
\* makes it return (False, None, None).
check_for_updates ==
    /\ pc = "check"
    /\ \E rf \in Responses, rb \in Responses :
         LET f == IF extract_repo_info_raises THEN None
                  ELSE get_latest_commit_sha(rf, up_fe)
             b == IF extract_repo_info_raises THEN None
                  ELSE get_latest_commit_sha(rb, up_be)
             fu == updated(f, fe_last_sha)
             bu == updated(b, be_last_sha)
         IN /\ fe_sha' = f
            /\ be_sha' = b
            /\ fe_updated' = fu
            /\ be_updated' = bu
            /\ has_updates' = (fu \/ bu)
            /\ same_poll' = (outcome # "startup" /\ f = fe_sha /\ b = be_sha)
            /\ versions' = polled(versions, f, b)
    /\ pc' = "polled"
    /\ prev_outcome' = outcome
    /\ api_log' = api_log \cup commit_lookups
    /\ UNCHANGED <<config_vars, fetch_vars, deploy_vars, child_vars, env_vars, tracked, result,
                   agent_vars, outcome>>

\* run, line 209: "if has_updates:" starts trigger_redeploy, which runs the
\* agent as a child process; otherwise the iteration is over.  prev_outcome
\* and same_poll describe the poll just made and are cleared here.
branch_on_updates ==
    /\ pc = "polled"
    /\ pc' = IF has_updates THEN "agent" ELSE "sleep"
    /\ stage' = IF has_updates THEN 1 ELSE 0
    /\ outcome' = IF has_updates THEN "running" ELSE "no_updates"
    /\ prev_outcome' = "startup"
    /\ same_poll' = FALSE
    /\ UNCHANGED <<config_vars, fetch_vars, deploy_vars, versions, child_vars, api_log, env_vars, tracked, poll_vars, result, ran, cmds,
                   rebuild_runs>>

\* run, lines 210-215: trigger_redeploy has returned; the tracked revisions
\* are advanced only if it returned True.
update_last_known ==
    /\ pc = "returned"
    /\ IF redeploy_succeeded(result)
         THEN /\ fe_last_sha' = committed(fe_sha, fe_last_sha)
              /\ be_last_sha' = committed(be_sha, be_last_sha)
              /\ versions' = recorded(versions, committed(fe_sha, fe_last_sha),
                                      committed(be_sha, be_last_sha))
         ELSE UNCHANGED <<tracked, versions>>
    /\ pc' = "sleep"
    /\ stage' = 0
    /\ ran' = <<>>
    /\ cmds' = <<>>
    /\ rebuild_runs' = <<>>
    /\ UNCHANGED <<config_vars, fetch_vars, deploy_vars, child_vars, api_log, env_vars, poll_vars, result, hist_vars>>

\* time.sleep(poll_interval) returns and the loop starts its next iteration.
sleep ==
    /\ pc = "sleep"
    /\ pc' = "check"
    /\ UNCHANGED <<config_vars, fetch_vars, deploy_vars, versions, child_vars, api_log, env_vars, tracked, poll_vars, result, agent_vars,
                   hist_vars>>

\* KeyboardInterrupt.  Inside the loop's try block it is caught and the loop
\* is left (exit code 0); before the loop and in time.sleep no handler
\* catches it and the interpreter exits with a traceback.
\* The process is gone then: only the tracked revisions it ended with are
\* kept, for the record.
interrupt ==
    /\ pc \notin {"exit0", "exit1"}
    /\ pc' = IF pc \in {"startup", "sleep"} THEN "exit1" ELSE "exit0"
    /\ fe_sha' = None
    /\ be_sha' = None
    /\ fe_updated' = FALSE
    /\ be_updated' = FALSE
    /\ has_updates' = FALSE
    /\ result' = FALSE
    /\ stage' = 0
    /\ ran' = <<>>
    /\ cmds' = <<>>
    /\ rebuild_runs' = <<>>
    /\ hung' = FALSE
    /\ orphan' = FALSE
    /\ outcome' = "interrupted"
    /\ prev_outcome' = "startup"
    /\ same_poll' = FALSE
    /\ UNCHANGED <<config_vars, fetch_vars, deploy_vars, versions, api_log, env_vars, tracked>>

\* ------------------------------------------------------- DeploymentAgent

\* verify_repo_cloned: the directory exists, is a directory, is not empty
\* and holds every required file (requirements.txt for the backend build).
verify_repo_cloned(dir, required_present) ==
    /\ dir # "absent"
    /\ dir # "empty"
    /\ required_present

\* What the download delivers.
Downloads == {"ok", "request_error"}
\* The archive: not a zip, a zip without members, a zip holding only its
\* root folder, a zip with files under its root folder.
Archives == {"bad_zip", "no_members", "empty_root", "content"}

\* clone_repository on a target directory in state dir (req: it holds
\* requirements.txt).  dl and archive are what the hosting API delivers,
\* areq whether the archive holds requirements.txt, fs_ok whether the merge
\* copies or the rename succeed, partial whether a failed merge had already
\* copied files.  Yields the return value, the target's new state and the
\* requests sent (the default-branch lookup and the archive download).
clone_repository(url_ok, dir, req, dl, archive, areq, fs_ok, partial) ==
    LET none == [ok |-> FALSE, dir |-> dir, req |-> req, requests |-> {}]
        sent == {[kind |-> "repo", auth |-> TRUE], [kind |-> "zipball", auth |-> TRUE]}
        same == [ok |-> FALSE, dir |-> dir, req |-> req, requests |-> sent]
        has_files == archive = "content"
    IN  IF ~github_token THEN none
        ELSE IF ~url_ok THEN none
        ELSE IF dl # "ok" THEN same
        ELSE IF archive \in {"bad_zip", "no_members"} THEN same
        ELSE IF dir # "absent"
          THEN \* _merge_directories into the existing target
               IF ~has_files
                 THEN [ok |-> verify_repo_cloned(dir, TRUE), dir |-> dir, req |-> req,
                       requests |-> sent]
               ELSE IF fs_ok
                 THEN [ok |-> TRUE, dir |-> "content", req |-> req \/ areq,
                       requests |-> sent]
               ELSE IF partial
                 THEN [ok |-> FALSE, dir |-> "content", req |-> req \/ areq,
                       requests |-> sent]
               ELSE same
          ELSE \* extracted_folder.rename(target_dir)
               IF ~fs_ok THEN same
               ELSE [ok |-> has_files,
                     dir |-> IF has_files THEN "content" ELSE "empty",
                     req |-> has_files /\ areq,
                     requests |-> sent]

\* The branch whose archive clone_repository requests: none without a token
\* or with a malformed url, else the default branch the metadata lookup
\* returned, or "main" if the lookup failed.
requested_branch(url_ok, lookup) ==
    IF ~github_token \/ ~url_ok THEN "none"
    ELSE IF lookup = "failed" THEN "main"
    ELSE lookup

\* setup_backend: True inside Docker; otherwise the venv is created unless
\* it exists, and the requirements are installed if the file exists.
setup_backend(venv_exists, venv_ok, pip_ok) ==
    IF in_docker THEN TRUE
    ELSE IF ~venv_exists /\ ~venv_ok THEN FALSE
    ELSE IF be_requirements /\ ~pip_ok THEN FALSE
    ELSE TRUE

\* setup_frontend: True inside Docker; otherwise node must be installed and,
\* if package.json exists, one of the two npm install strategies must work.
\* A failing "npm run build" is only a warning.
setup_frontend(node, package_json, npm_force_ok, npm_legacy_ok, npm_build_ok) ==
    IF in_docker THEN TRUE
    ELSE IF ~node THEN FALSE
    ELSE IF package_json /\ ~npm_force_ok /\ ~npm_legacy_ok THEN FALSE
    ELSE TRUE

\* The two command-line forms of the orchestrator with their project flag.
compose_v2 == [tool |-> "docker compose", flag |-> "-p"]
compose_v1 == [tool |-> "docker-compose", flag |-> "--project-name"]

\* The form build_docker_images and deploy use: v2 if its probe succeeds.
compose_form(probe_ok) == IF probe_ok THEN compose_v2 ELSE compose_v1

\* (mutant) the project name is left to the orchestrator, which derives it
\* from the working directory.
command_without_project(form, verb, flags, targets) ==
    [tool |-> form.tool, project_flag |-> "", project |-> "",
     verb |-> verb, flags |-> flags, targets |-> targets]

\* A command of the orchestrator, or of the docker CLI itself.
command(form, verb, flags, targets) ==
    [tool |-> form.tool, project_flag |-> form.flag, project |-> "jalindeploy",
     verb |-> verb, flags |-> flags, targets |-> targets]
docker(verb, flags, targets) ==
    [tool |-> "docker", project_flag |-> "", project |-> "",
     verb |-> verb, flags |-> flags, targets |-> targets]

\* (mutant) the backend is verified without its required file.
build_gate_without_requirements ==
    /\ manifest
    /\ verify_repo_cloned(frontend_dir, TRUE)
    /\ verify_repo_cloned(backend_dir, TRUE)

\* The three checks build_docker_images makes before it builds anything.
build_gate ==
    /\ manifest
    /\ verify_repo_cloned(frontend_dir, TRUE)
    /\ verify_repo_cloned(backend_dir, be_requirements)

\* build_docker_images: the gate, then one build of frontend and backend.
\* Yields the return value and the commands it issued.
build_docker_images(probe_ok, build_ok) ==
    IF ~build_gate THEN [ok |-> FALSE, cmds |-> <<>>]
    ELSE [ok |-> build_ok,
          cmds |-> <<command(compose_form(probe_ok), "build", {"--parallel"},
                             {"frontend", "backend"})>>]

\* What deploy's version probe yields: exit code 0, or one of the three
\* exceptions the code catches (a nonzero exit code with check=True, no
\* docker executable on the PATH, no answer within 5 s).
DeployProbes == {"ok", "CalledProcessError", "FileNotFoundError", "TimeoutExpired"}

\* How a cleanup command ends: exit code 0, another exit code, an exception.
Cleanups == {"zero", "nonzero", "raises"}

\* What the commands of one call of deploy yield: the probe; whether each of
\* stop, rm (frontend) and stop, rm (backend) exits with code 0; whether the
\* bring-up does; how prune, rmi (frontend) and prune, rmi (backend) end.
DeployInputs ==
    [probe : DeployProbes, stop_rm_ok : [1..4 -> BOOLEAN], up_ok : BOOLEAN,
     cleanup : [1..4 -> Cleanups]]

\* deploy: stop and remove the two containers, bring the two services up,
\* and after a successful bring-up prune images and remove the stale tags.
\* Yields the return value, whether an exception left deploy instead (only
\* CalledProcessError is caught), and the commands issued.  The exit codes
\* of stop and rm are only logged.  "docker stop" is run with the executable
\* whose absence makes the probe raise FileNotFoundError, and raises it too.
\* A prune that raises skips the rmi of the same image.
deploy(probe, stop_rm_ok, up_ok, cleanup) ==
    LET stop_rm == <<docker("stop", {}, {"jalin-frontend"}),
                     docker("rm", {"-f"}, {"jalin-frontend"}),
                     docker("stop", {}, {"jalin-backend"}),
                     docker("rm", {"-f"}, {"jalin-backend"})>>
        up == <<command(compose_form(probe = "ok"), "up", {"-d", "--no-deps", "--build"},
                        {"frontend", "backend"})>>
        clean(image, k) ==
            IF cleanup[k] = "raises"
              THEN <<docker("image prune", {"-f", "--filter"}, {})>>
              ELSE <<docker("image prune", {"-f", "--filter"}, {}),
                     docker("rmi", {"-f"}, {image})>>
    IN  IF probe = "FileNotFoundError"
          THEN [ok |-> FALSE, raised |-> TRUE, cmds |-> <<>>]
        ELSE IF up_ok
          THEN [ok |-> TRUE, raised |-> FALSE,
                cmds |-> stop_rm \o up \o clean("jalindeploy-frontend", 1)
                                 \o clean("jalindeploy-backend", 3)]
        ELSE [ok |-> FALSE, raised |-> FALSE, cmds |-> stop_rm \o up]

\* DeploymentAgent.run after a step: a step that did not return True ends
\* the agent with exit code 1, the last step returning True with exit code 0.
\* trigger_redeploy returns False on a nonzero exit code and goes on to its
\* own rebuild on exit code 0.
agent_step(name, ok, issued) ==
    /\ pc = "agent"
    /\ ~hung
    /\ stage \in 1..Len(Stages)
    /\ Stages[stage] = name
    /\ ran' = Append(ran, [stage |-> name, ok |-> ok])
    /\ cmds' = cmds \o issued
    /\ IF ok
         THEN /\ stage' = stage + 1
              /\ pc' = IF stage = Len(Stages) THEN "rebuild" ELSE "agent"
              /\ UNCHANGED <<result, outcome>>
         ELSE /\ stage' = stage
              /\ pc' = "returned"
              /\ result' = FALSE
              /\ outcome' = name
    /\ UNCHANGED <<config_vars, fetch_vars, deploy_vars, child_vars, up_fe, up_be, pushes,
                   tree_edits, tracked, poll_vars, rebuild_runs, prev_outcome,
                   same_poll>>

\* Step 1a: clone_repository(fe_repo_url, frontend_dir, "Frontend").
clone_fe ==
    \E dl \in Downloads, archive \in Archives, fs_ok \in BOOLEAN, partial \in BOOLEAN :
        LET r == clone_repository(fe_url_ok, frontend_dir, TRUE, dl, archive,
                                  TRUE, fs_ok, partial)
        IN /\ agent_step("clone_fe", r.ok, <<>>)
           /\ api_log' = api_log \cup r.requests
           /\ frontend_dir' = r.dir
           /\ versions' \in {downloaded(versions, "fe", requested_branch(fe_url_ok, lookup),
                                         dl = "ok") : lookup \in Lookups}
           /\ UNCHANGED <<backend_dir, be_requirements>>

\* Step 1b: clone_repository(be_repo_url, backend_dir, "Backend").
clone_be ==
    \E dl \in Downloads, archive \in Archives, areq \in BOOLEAN,
       fs_ok \in BOOLEAN, partial \in BOOLEAN :
        LET r == clone_repository(be_url_ok, backend_dir, be_requirements, dl,
                                  archive, areq, fs_ok, partial)
        IN /\ agent_step("clone_be", r.ok, <<>>)
           /\ api_log' = api_log \cup r.requests
           /\ backend_dir' = r.dir
           /\ be_requirements' = r.req
           /\ versions' \in {downloaded(versions, "be", requested_branch(be_url_ok, lookup),
                                         dl = "ok") : lookup \in Lookups}
           /\ UNCHANGED frontend_dir

\* Step 2.
setup_backend_step ==
    \E venv_exists \in BOOLEAN, venv_ok \in BOOLEAN, pip_ok \in BOOLEAN :
        /\ agent_step("setup_backend", setup_backend(venv_exists, venv_ok, pip_ok), <<>>)
        /\ UNCHANGED <<tree_vars, api_log, versions>>

\* Step 3.
setup_frontend_step ==
    \E node \in BOOLEAN, package_json \in BOOLEAN, npm_force_ok \in BOOLEAN,
       npm_legacy_ok \in BOOLEAN, npm_build_ok \in BOOLEAN :
        /\ agent_step("setup_frontend",
                      setup_frontend(node, package_json, npm_force_ok,
                                     npm_legacy_ok, npm_build_ok), <<>>)
        /\ UNCHANGED <<tree_vars, api_log, versions>>

\* Step 4.
build_docker_images_step ==
    \E probe_ok \in BOOLEAN, build_ok \in BOOLEAN :
        LET r == build_docker_images(probe_ok, build_ok)
        IN /\ agent_step("build_docker_images", r.ok, r.cmds)
           /\ UNCHANGED <<tree_vars, api_log, versions>>

\* Step 5.  An exception that leaves deploy ends the agent with a traceback
\* and exit code 1, as a return value of False does.  The commands besides
\* the bring-up all succeed or all fail here.
deploy_step ==
    \E probe \in DeployProbes, up_ok \in BOOLEAN, others_ok \in BOOLEAN :
        LET r == deploy(probe, [k \in 1..4 |-> others_ok], up_ok,
                        [k \in 1..4 |-> IF others_ok THEN "zero" ELSE "nonzero"])
        IN /\ agent_step("deploy", r.ok, r.cmds)
           /\ UNCHANGED <<tree_vars, api_log, versions>>

\* The operations of a step that have no timeout of their own and can keep
\* the agent waiting: the archive download of a clone that got as far, the
\* venv, pip and npm runs of the setup steps outside Docker, the build
\* command once the gate is passed, and the docker commands of deploy.
can_hang(name) ==
    CASE name = "clone_fe" -> github_token /\ fe_url_ok
      [] name = "clone_be" -> github_token /\ be_url_ok
      [] name \in {"setup_backend", "setup_frontend"} -> ~in_docker
      [] name = "build_docker_images" -> build_gate
      [] OTHER -> TRUE

\* Whether that operation is a child process of the agent (subprocess.run)
\* and not a request the agent makes itself.
spawned(name) == name \notin {"clone_fe", "clone_be"}

\* An operation of the step the agent is in does not return.
hang ==
    /\ pc = "agent"
    /\ ~hung
    /\ stage \in 1..Len(Stages)
    /\ can_hang(Stages[stage])
    /\ hung' = TRUE
    /\ UNCHANGED <<config_vars, fetch_vars, deploy_vars, versions, api_log, env_vars, pc, tracked, poll_vars, result,
                   agent_vars, orphan, hist_vars>>

\* A command left behind by a killed agent ends by itself.
orphan_exit ==
    /\ orphan
    /\ orphan' = FALSE
    /\ UNCHANGED <<config_vars, fetch_vars, deploy_vars, versions, api_log, env_vars, pc, tracked, poll_vars, result,
                   agent_vars, hung, hist_vars>>

\* (mutant) TimeoutExpired is caught nowhere and ends the watcher.
agent_timeout_uncaught ==
    /\ pc = "agent"
    /\ pc' = "exit1"
    /\ result' = FALSE
    /\ outcome' = "timeout"
    /\ UNCHANGED <<config_vars, fetch_vars, deploy_vars, versions, child_vars, api_log, env_vars, tracked, poll_vars,
                   agent_vars, prev_outcome, same_poll>>

\* (mutant) the agent is run without a timeout.
agent_timeout_never ==
    /\ pc = "agent"
    /\ FALSE
    /\ UNCHANGED vars

\* trigger_redeploy: the agent did not finish within 600 s; subprocess.run
\* kills it and raises TimeoutExpired, which "except Exception" turns into
\* False.  Only the agent's own process is killed: a child process it was
\* waiting for keeps running.
agent_timeout ==
    /\ pc = "agent"
    /\ pc' = "returned"
    /\ result' = FALSE
    /\ outcome' = "timeout"
    /\ hung' = FALSE
    /\ orphan' = (orphan \/ (hung /\ spawned(Stages[stage])))
    /\ UNCHANGED <<config_vars, fetch_vars, deploy_vars, versions, api_log, env_vars, tracked, poll_vars, agent_vars,
                   prev_outcome, same_poll>>

\* What a version probe of trigger_redeploy yields: exit code 0, another
\* exit code, FileNotFoundError or TimeoutExpired (both caught by the loop
\* over compose_commands), or another exception.
Probes == {"ok", "nonzero", "raises", "error"}
\* What the rebuild command yields: an exit code, TimeoutExpired after
\* 1800 s, FileNotFoundError, or another exception.
Rebuilds == {"ok", "nonzero", "timeout", "not_found", "error"}

\* The rebuild command is run only after a probe that exited with code 0.
runs_after(probe) == IF probe = "ok" THEN Rebuilds ELSE {"not_run"}

\* One turn of the loop over compose_commands: the commands issued and how
\* they ended, whether the loop is left (break), rebuild_result ("none" if
\* not assigned), and whether an exception left the loop for the
\* "except Exception" of trigger_redeploy.
rebuild_with(form, probe, run) ==
    IF probe # "ok"
      THEN [cmds |-> <<>>, runs |-> <<>>, break |-> FALSE, rebuild_result |-> "none",
            error |-> probe = "error"]
      ELSE [cmds |-> <<command(form, "up", {"-d", "--build", "--force-recreate"},
                               {"frontend", "backend"})>>,
            runs |-> <<[tool |-> form.tool, ended |-> run]>>,
            break |-> run \in {"ok", "nonzero"},
            rebuild_result |-> IF run \in {"ok", "nonzero"} THEN run ELSE "none",
            error |-> run = "error"]

\* trigger_redeploy after the agent exited with code 0: rebuild and restart
\* with the first form that answers, and return whether that succeeded.
\* After "except (FileNotFoundError, subprocess.TimeoutExpired): continue"
\* the loop goes on to the second form.
rebuild ==
    /\ pc = "rebuild"
    /\ \E p2 \in Probes, p1 \in Probes :
       \E r2 \in runs_after(p2), r1 \in runs_after(p1) :
         LET first == rebuild_with(compose_v2, p2, r2)
             stop == first.break \/ first.error
             second == rebuild_with(compose_v1, p1, r1)
             rebuild_result == IF stop THEN first.rebuild_result
                               ELSE second.rebuild_result
         IN /\ cmds' = IF stop THEN cmds \o first.cmds
                       ELSE cmds \o first.cmds \o second.cmds
            /\ rebuild_runs' = IF stop THEN first.runs ELSE first.runs \o second.runs
            /\ result' = (rebuild_result = "ok")
            /\ outcome' = IF rebuild_result = "ok" THEN "success" ELSE "rebuild"
    /\ pc' = "returned"
    /\ UNCHANGED <<config_vars, fetch_vars, deploy_vars, versions, child_vars, api_log, env_vars, tracked, poll_vars, stage, ran,
                   prev_outcome, same_poll>>

\* ------------------------------- clone_repository, one file at a time

\* The names _merge_directories does not overwrite.
preserve_files == {".env.local", ".env.local.example", "Dockerfile"}

\* What a call of shutil.copy2 does: it copies, raises PermissionError, or
\* raises something else.
Copies == {"ok", "PermissionError", "error"}

\* Where shutil.copy2(source_file, target_file) writes: into target_file if
\* that is a directory (under the source file's name), else to target_file.
copy2_dst(t, p) == IF t[p] = "dir" THEN Child(p, Name(p)) ELSE p

\* The files of the fetched tree in directory d that the walk has not yet
\* dealt with.
pending(d) == {p \in Paths \ {"."} : Parent(p) = d /\ IsFile(fetched[p]) /\ p \notin done}

\* The outer finally block and a return: the temporary archive is unlinked.
fetch_return(value) ==
    /\ fpc' = "returned"
    /\ fetch_result' = value
    /\ tmp_zip' = FALSE

\* Lines 158-196: without a token, or with a url extract_repo_info rejects,
\* clone_repository returns False; otherwise it looks up the default branch
\* and creates the temporary archive file.
fetch_begin ==
    /\ fpc = "called"
    /\ IF ~github_token \/ ~fe_url_ok
         THEN /\ fpc' = "returned"
              /\ fetch_result' = FALSE
              /\ UNCHANGED tmp_zip
         ELSE /\ fpc' = "download"
              /\ tmp_zip' = TRUE
              /\ UNCHANGED fetch_result
    /\ UNCHANGED <<config_vars, env_vars, watch_vars, deploy_vars, versions, copy_log, zip_kind, fetched, target,
                   target0, wdir, done, raised, extract_temp, fs_ops>>

\* Lines 198-206: the archive is downloaded into the temporary file; a
\* RequestException ends the call.
download ==
    /\ fpc = "download"
    /\ \E dl \in Downloads :
         IF dl = "ok"
           THEN fpc' = "prepare" /\ UNCHANGED <<fetch_result, tmp_zip>>
           ELSE fetch_return(FALSE)
    /\ UNCHANGED <<config_vars, env_vars, watch_vars, deploy_vars, versions, copy_log, zip_kind, fetched, target,
                   target0, wdir, done, raised, extract_temp, fs_ops>>

\* Lines 211-218: the temporary extraction directory is created (outside the
\* inner try block: an exception here ends the call).
prepare_extract ==
    /\ fpc = "prepare"
    /\ \E mkdir_ok \in BOOLEAN :
         IF mkdir_ok
           THEN /\ fpc' = "extract"
                /\ extract_temp' = TRUE
                /\ UNCHANGED <<fetch_result, tmp_zip>>
           ELSE /\ fetch_return(FALSE)
                /\ UNCHANGED extract_temp
    /\ UNCHANGED <<config_vars, env_vars, watch_vars, deploy_vars, versions, copy_log, zip_kind, fetched, target,
                   target0, wdir, done, raised, fs_ops>>

\* Lines 221-248: the archive is extracted.  A file that is no zip, or a zip
\* without members, raises.  Otherwise the root folder is merged into the
\* target if that exists, and renamed to it if not (a rename can fail).
extract ==
    /\ fpc = "extract"
    /\ IF zip_kind # "tree"
         THEN /\ raised' = TRUE
              /\ fpc' = "cleanup"
              /\ UNCHANGED <<target, fs_ops>>
         ELSE IF target["."] # "absent"
           THEN /\ fpc' = "merge"
                /\ fs_ops' = fs_ops \cup {"merge"}
                /\ UNCHANGED <<target, raised>>
           ELSE \E rename_ok \in BOOLEAN :
                  /\ fpc' = "cleanup"
                  /\ raised' = ~rename_ok
                  /\ target' = IF rename_ok THEN fetched ELSE target
                  /\ fs_ops' = IF rename_ok THEN fs_ops \cup {"rename"} ELSE fs_ops
    /\ wdir' = "."
    /\ done' = {}
    /\ UNCHANGED <<config_vars, env_vars, watch_vars, deploy_vars, versions, copy_log, zip_kind, fetched, target0,
                   tmp_zip, extract_temp, fetch_result>>

\* _merge_directories, lines 112-137: one file of the directory os.walk is
\* in.  A preserved name that exists in the target is skipped.  Otherwise the
\* file is copied; after a PermissionError the directory is chmod-ed, the
\* copy repeated and the file chmod-ed, and an exception in any of the three
\* is raised again, as is any other exception of the first copy.  A copy
\* that fails after it opened its destination leaves it truncated.
merge_file ==
    /\ fpc = "merge"
    /\ \E p \in pending(wdir) :
         IF Name(p) \in preserve_files /\ target[p] # "absent"
           THEN /\ done' = done \cup {p}
                /\ copy_log' = <<>>
                /\ UNCHANGED <<fpc, target, raised>>
           ELSE \E first \in Copies, chmod_dir_ok \in BOOLEAN, retry \in Copies,
                   chmod_file_ok \in BOOLEAN, wrote \in BOOLEAN :
                  LET dst == copy2_dst(target, p)
                      retried == first = "PermissionError" /\ chmod_dir_ok
                      copied == first = "ok" \/ (retried /\ retry = "ok")
                      failed == \/ first = "error"
                                \/ first = "PermissionError" /\ ~chmod_dir_ok
                                \/ retried /\ retry # "ok"
                                \/ retried /\ ~chmod_file_ok
                      truncated == /\ ~copied
                                   /\ wrote
                                   /\ first = "error" \/ (retried /\ retry = "error")
                  IN /\ target' = IF copied THEN [target EXCEPT ![dst] = fetched[p]]
                                  ELSE IF truncated THEN [target EXCEPT ![dst] = "truncated"]
                                  ELSE target
                     /\ copy_log' = IF retried THEN <<first, retry>> ELSE <<first>>
                     /\ IF failed
                          THEN raised' = TRUE /\ fpc' = "cleanup" /\ UNCHANGED done
                          ELSE done' = done \cup {p} /\ UNCHANGED <<fpc, raised>>
    /\ UNCHANGED <<config_vars, env_vars, watch_vars, deploy_vars, versions, zip_kind, fetched, target0,
                   wdir, tmp_zip, extract_temp, fetch_result, fs_ops>>

\* _merge_directories, lines 100-109: os.walk goes on to the fetched tree's
\* directory "x"; target_subdir.mkdir(parents=True, exist_ok=True) creates
\* it in the target, and raises FileExistsError if the target holds a file
\* of that name.
merge_mkdir ==
    /\ fpc = "merge"
    /\ wdir = "."
    /\ pending(".") = {}
    /\ fetched["x"] = "dir"
    /\ IF IsFile(target["x"])
         THEN /\ raised' = TRUE
              /\ fpc' = "cleanup"
              /\ UNCHANGED <<target, wdir>>
         ELSE /\ target' = [target EXCEPT !["x"] = "dir"]
              /\ wdir' = "x"
              /\ UNCHANGED <<fpc, raised>>
    /\ UNCHANGED <<config_vars, env_vars, watch_vars, deploy_vars, versions, copy_log, zip_kind, fetched, target0,
                   done, tmp_zip, extract_temp, fetch_result, fs_ops>>

\* _merge_directories returns: os.walk has no directory left.
merge_return ==
    /\ fpc = "merge"
    /\ pending(wdir) = {}
    /\ wdir = "." => fetched["x"] # "dir"
    /\ fpc' = "cleanup"
    /\ UNCHANGED <<config_vars, env_vars, watch_vars, deploy_vars, versions, copy_log, zip_kind, fetched, target,
                   target0, wdir, done, raised, tmp_zip, extract_temp,
                   fetch_result, fs_ops>>

\* Lines 250-256: the inner finally block removes the extraction directory;
\* if that fails, a warning is logged and the directory stays.  An exception
\* raised in the try block then leaves through the outer finally block and
\* "except Exception", which returns False.
cleanup ==
    /\ fpc = "cleanup"
    /\ \E rmtree_ok \in BOOLEAN : extract_temp' = ~rmtree_ok
    /\ IF raised
         THEN fetch_return(FALSE)
         ELSE fpc' = "verify" /\ UNCHANGED <<fetch_result, tmp_zip>>
    /\ UNCHANGED <<config_vars, env_vars, watch_vars, deploy_vars, versions, copy_log, zip_kind, fetched, target,
                   target0, wdir, done, raised, fs_ops>>

\* Lines 258-270: the return value is what verify_repo_cloned says of the
\* target, without required files.
verify ==
    /\ fpc = "verify"
    /\ fetch_return(verify_repo_cloned(TreeState(target), TRUE))
    /\ UNCHANGED <<config_vars, env_vars, watch_vars, deploy_vars, versions, copy_log, zip_kind, fetched, target,
                   target0, wdir, done, raised, extract_temp, fs_ops>>

\* clone_repository is called for a target directory that does not exist or
\* holds a tree of local files, and the hosting API delivers some archive.
FetchInit ==
    /\ github_token \in BOOLEAN
    /\ fe_url_ok \in BOOLEAN
    /\ be_url_ok = TRUE
    /\ in_docker = TRUE
    /\ manifest = TRUE
    /\ up_fe = "abc123"
    /\ up_be = "def456"
    /\ pushes = 0
    /\ frontend_dir = "absent"
    /\ backend_dir = "absent"
    /\ be_requirements = FALSE
    /\ tree_edits = 0
    /\ pc = "agent"
    /\ fe_last_sha = None
    /\ be_last_sha = None
    /\ fe_sha = "abc123"
    /\ be_sha = "def456"
    /\ fe_updated = TRUE
    /\ be_updated = TRUE
    /\ has_updates = TRUE
    /\ result = FALSE
    /\ stage = 1
    /\ ran = <<>>
    /\ cmds = <<>>
    /\ rebuild_runs = <<>>
    /\ hung = FALSE
    /\ orphan = FALSE
    /\ outcome = "running"
    /\ prev_outcome = "startup"
    /\ same_poll = FALSE
    /\ api_log = {}
    /\ fpc = "called"
    /\ zip_kind \in ArchiveKinds
    /\ fetched \in Trees("fetched")
    /\ zip_kind # "tree" => fetched = EmptyRoot
    /\ target \in Trees("local") \cup {NoTree}
    /\ target0 = target
    /\ wdir = "."
    /\ done = {}
    /\ raised = FALSE
    /\ tmp_zip = FALSE
    /\ extract_temp = FALSE
    /\ fetch_result = FALSE
    /\ fs_ops = {}
    /\ copy_log = <<>>
    /\ DeployIdle
    /\ versions = Untracked

FetchNext ==
    \/ fetch_begin
    \/ download
    \/ prepare_extract
    \/ extract
    \/ merge_file
    \/ merge_mkdir
    \/ merge_return
    \/ cleanup
    \/ verify

FetchSpec == FetchInit /\ [][FetchNext]_vars

\* --------------------------------------------- deploy, command by command

\* deploy is called and its commands do what deploy_in says.
deploy_call ==
    /\ deploy_in \in DeployInputs
    /\ deploy_out = <<>>
    /\ deploy_out' = <<deploy(deploy_in.probe, deploy_in.stop_rm_ok, deploy_in.up_ok,
                              deploy_in.cleanup)>>
    /\ UNCHANGED <<config_vars, env_vars, watch_vars, fetch_vars, deploy_in, versions>>

\* The agent has reached its last step, and the commands of deploy yield
\* whatever they can.
DeployInit ==
    /\ github_token = TRUE
    /\ fe_url_ok = TRUE
    /\ be_url_ok = TRUE
    /\ in_docker = TRUE
    /\ manifest = TRUE
    /\ up_fe = "abc123"
    /\ up_be = "def456"
    /\ pushes = 0
    /\ frontend_dir = "content"
    /\ backend_dir = "content"
    /\ be_requirements = TRUE
    /\ tree_edits = 0
    /\ pc = "agent"
    /\ fe_last_sha = None
    /\ be_last_sha = None
    /\ fe_sha = "abc123"
    /\ be_sha = "def456"
    /\ fe_updated = TRUE
    /\ be_updated = TRUE
    /\ has_updates = TRUE
    /\ result = FALSE
    /\ stage = Len(Stages)
    /\ ran = <<>>
    /\ cmds = <<>>
    /\ rebuild_runs = <<>>
    /\ hung = FALSE
    /\ orphan = FALSE
    /\ outcome = "running"
    /\ prev_outcome = "startup"
    /\ same_poll = FALSE
    /\ api_log = {}
    /\ FetchIdle
    /\ deploy_in \in DeployInputs
    /\ deploy_out = <<>>
    /\ versions = Untracked

DeployNext == deploy_call

DeploySpec == DeployInit /\ [][DeployNext]_vars

\* ------------------------------------------------------------------- Next

Next ==
    \/ Push
    \/ TreeEdit
    \/ startup
    \/ check_for_updates
    \/ branch_on_updates
    \/ clone_fe
    \/ clone_be
    \/ setup_backend_step
    \/ setup_frontend_step
    \/ build_docker_images_step
    \/ deploy_step
    \/ agent_timeout
    \/ rebuild
    \/ update_last_known
    \/ sleep
    \/ interrupt

Spec == Init /\ [][Next]_vars

\* ---------------------------------------------- the watcher left running

\* A fresh deployment in a container in which a cycle can succeed: the token
\* and the manifest are in place, both urls are well formed, and the working
\* trees do not exist yet (the first fetch renames, the later ones merge).
FairInit ==
    /\ Init
    /\ github_token
    /\ fe_url_ok
    /\ be_url_ok
    /\ manifest
    /\ in_docker
    /\ frontend_dir = "absent"

\* The watcher is never interrupted and nobody else touches the trees.
FairNext ==
    \/ Push
    \/ startup
    \/ check_for_updates
    \/ branch_on_updates
    \/ clone_fe
    \/ clone_be
    \/ setup_backend_step
    \/ setup_frontend_step
    \/ build_docker_images_step
    \/ deploy_step
    \/ agent_timeout
    \/ rebuild
    \/ update_last_known
    \/ sleep

\* The step of the agent that has just been executed returned True.
step_ok == Len(ran') = Len(ran) + 1 /\ ran'[Len(ran')].ok

\* Both requests of a poll are answered with the upstream revision.
poll_succeeds == check_for_updates /\ fe_sha' = up_fe /\ be_sha' = up_be

\* The process keeps running, and polls, the steps of the agent and the
\* rebuild, which may each fail any number of times, do not fail forever.
Fairness ==
    /\ WF_vars(FairNext)
    /\ SF_vars(poll_succeeds)
    /\ SF_vars(clone_fe /\ step_ok)
    /\ SF_vars(clone_be /\ step_ok /\ be_requirements')
    /\ SF_vars(setup_backend_step /\ step_ok)
    /\ SF_vars(setup_frontend_step /\ step_ok)
    /\ SF_vars(build_docker_images_step /\ step_ok)
    /\ SF_vars(deploy_step /\ step_ok)
    /\ SF_vars(rebuild /\ result')

FairSpec == FairInit /\ [][FairNext]_vars /\ Fairness

\* ----------------------------------------- pushes racing with a cycle

\* The deployment of FairInit, with the history of the revisions kept.
RaceInit ==
    /\ Boot
    /\ github_token
    /\ fe_url_ok
    /\ be_url_ok
    /\ manifest
    /\ in_docker
    /\ frontend_dir = "absent"
    /\ versions = NoHistory

\* Pushes arrive at any moment of the watcher's run.
RaceSpec == RaceInit /\ [][FairNext]_vars

\* ------------------------------------------- operations that never return

\* A deployment in which the agent gets as far as its external operations.
HangInit ==
    /\ Init
    /\ github_token
    /\ fe_url_ok
    /\ be_url_ok
    /\ manifest
    /\ frontend_dir = "absent"

\* The steps of the watcher and of the agent it runs.
HangStep ==
    \/ startup
    \/ check_for_updates
    \/ branch_on_updates
    \/ clone_fe
    \/ clone_be
    \/ setup_backend_step
    \/ setup_frontend_step
    \/ build_docker_images_step
    \/ deploy_step
    \/ agent_timeout
    \/ rebuild
    \/ update_last_known
    \/ sleep

\* The watcher is never interrupted and the upstream repositories stay as
\* they are; operations of the agent can hang, and what a killed agent
\* leaves behind ends whenever it does.
HangNext ==
    \/ hang
    \/ orphan_exit
    \/ HangStep

\* The watcher's process keeps running and its timeouts expire: a step of
\* HangStep that stays possible is taken.  Nothing is assumed about the
\* operations that hang.
HangSpec == HangInit /\ [][HangNext]_vars /\ WF_vars(HangStep)

\* ---------------------------------------------------------------- claims

\* A step of the watcher that is not the delivery of an interrupt.
Running == pc' \notin {"exit0", "exit1"}

\* C1: after the startup initialisation the tracked revisions change only in
\* the step that ends an iteration whose trigger_redeploy returned True; no
\* poll, failed step, timeout or interrupt changes either of them.
C1_TrackedChangeOnlyOnSuccess ==
    [][(fe_last_sha' # fe_last_sha \/ be_last_sha' # be_last_sha)
          => \/ pc = "startup"
             \/ /\ pc = "returned"
                /\ result = TRUE
                /\ outcome = "success"
                /\ pc' = "sleep"]_vars

\* C1 witness: a successful cycle has ended and has advanced the frontend's
\* tracked revision to the one its poll observed.
C1_Witness ==
    /\ pc = "sleep"
    /\ outcome = "success"
    /\ fe_updated
    /\ fe_last_sha = fe_sha

\* C2: from the failure of build_docker_images on, no step changes a tracked
\* revision, and if the next poll returns the revisions the failed cycle's
\* poll returned, every repository that poll reported changed is reported
\* changed again.
C2_BuildFailureKeepsRevisions ==
    [][/\ (outcome = "build_docker_images" \/ outcome' = "build_docker_images")
            => (fe_last_sha' = fe_last_sha /\ be_last_sha' = be_last_sha)
       /\ (/\ pc = "check"
           /\ pc' = "polled"
           /\ outcome = "build_docker_images"
           /\ fe_sha' = fe_sha
           /\ be_sha' = be_sha)
            => /\ fe_updated => fe_updated'
               /\ be_updated => be_updated'
               /\ has_updates']_vars

\* C2 witness: the poll after a cycle that failed in build_docker_images
\* returned the same revisions and reports the frontend changed again.
C2_Witness ==
    /\ pc = "polled"
    /\ prev_outcome = "build_docker_images"
    /\ same_poll
    /\ fe_updated
    /\ fe_last_sha # fe_sha

\* Both tracked revisions are the upstream ones and no cycle is running.
C3_Converged ==
    /\ fe_last_sha = up_fe
    /\ be_last_sha = up_be
    /\ pc \in {"check", "polled", "sleep"}
    /\ pc = "polled" => ~has_updates

\* C3: while a tracked revision differs from the upstream one, every poll
\* that is answered for both repositories triggers a deploy cycle; and if
\* polls, steps and rebuilds do not fail forever, from some point on both
\* tracked revisions equal the upstream ones and no cycle is triggered.
C3_RetryUntilConverged ==
    /\ [][(/\ pc = "check"
           /\ pc' = "polled"
           /\ fe_sha' = up_fe
           /\ be_sha' = up_be
           /\ (fe_last_sha # up_fe \/ be_last_sha # up_be))
            => has_updates']_vars
    /\ [][(pc = "polled" /\ has_updates /\ pc' # pc) => pc' = "agent"]_vars
    /\ <>[]C3_Converged

\* C3 witness: a cycle has failed, the tracked frontend revision still
\* differs from the upstream one, and the next poll triggers a cycle again.
C3_Witness ==
    /\ pc = "polled"
    /\ prev_outcome \in FailPoints
    /\ fe_sha = up_fe
    /\ be_sha = up_be
    /\ fe_last_sha # up_fe
    /\ has_updates

\* C4 as stated: a poll that returns what the poll before it returned never
\* triggers a deploy cycle.
C4_SamePollNeverTriggers ==
    (pc = "polled" /\ same_poll) => ~has_updates

\* C4 amended: a poll that returns what the poll before it returned triggers
\* no deploy cycle, unless the poll before it triggered a cycle that failed.
C4_SamePollAfterSuccessOrNoUpdates ==
    (pc = "polled" /\ same_poll /\ prev_outcome \in {"success", "no_updates"})
        => ~has_updates

\* C4 witness: the poll after a successful cycle returned the same two
\* revisions and triggers nothing.
C4_Witness ==
    /\ pc = "polled"
    /\ same_poll
    /\ prev_outcome = "success"
    /\ fe_sha \in Shas
    /\ be_sha \in Shas
    /\ ~has_updates

\* C5: the startup step always enters the loop, and a poll that returns a
\* revision for a repository whose tracked revision is still unknown starts
\* a deploy cycle, whatever the other repository's revisions are.
C5_UnknownRevisionForcesCycle ==
    [][/\ (pc = "startup" /\ pc' # pc /\ Running) => pc' = "check"
       /\ (/\ pc = "polled"
           /\ pc' # pc
           /\ Running
           /\ \/ (fe_last_sha = None /\ fe_sha \in Shas)
              \/ (be_last_sha = None /\ be_sha \in Shas))
            => (pc' = "agent" /\ stage' = 1)]_vars

\* C5 witness: a cycle has just been started for the backend, unknown since
\* startup, while the frontend is known and unchanged.
C5_Witness ==
    /\ pc = "agent"
    /\ stage = 1
    /\ ran = <<>>
    /\ be_last_sha = None
    /\ be_sha \in Shas
    /\ fe_last_sha \in Shas
    /\ fe_sha = fe_last_sha

\* C6 as stated: after a successful cycle both tracked revisions are what
\* that cycle's poll returned.
C6_BothSetToPollResult ==
    (pc = "sleep" /\ outcome = "success")
        => (fe_last_sha = fe_sha /\ be_last_sha = be_sha)

\* C6 amended: after a successful cycle the tracked revision of every
\* repository for which that cycle's poll returned a revision is that
\* revision, whether or not the repository had changed.
C6_ObservedRevisionsRecorded ==
    (pc = "sleep" /\ outcome = "success")
        => /\ fe_sha \in Shas => fe_last_sha = fe_sha
           /\ be_sha \in Shas => be_last_sha = be_sha

\* C6 witness: a cycle triggered by the frontend alone has succeeded and the
\* unchanged backend's observed revision is recorded too.
C6_Witness ==
    /\ pc = "sleep"
    /\ outcome = "success"
    /\ fe_updated
    /\ ~be_updated
    /\ fe_last_sha = fe_sha
    /\ be_sha \in Shas
    /\ be_last_sha = be_sha

\* C7: a poll reports a repository changed iff it observed a revision and
\* that revision differs from the tracked one; a deploy cycle is started iff
\* one of the two is reported changed.
C7_ChangeDetection ==
    /\ pc = "polled"
        => /\ fe_updated <=> (fe_sha # None /\ fe_sha # "" /\ fe_sha # fe_last_sha)
           /\ be_updated <=> (be_sha # None /\ be_sha # "" /\ be_sha # be_last_sha)
    /\ pc \in {"polled", "agent", "rebuild", "returned", "sleep"}
        => (has_updates <=> (fe_updated \/ be_updated))
    /\ pc \in {"agent", "rebuild", "returned"} => has_updates
    /\ pc = "sleep" => (outcome = "no_updates" <=> ~has_updates)

\* C7 witness: a poll failed for the backend, whose tracked revision is
\* known, and reports only the frontend changed.
C7_Witness ==
    /\ pc = "polled"
    /\ be_sha = None
    /\ be_last_sha \in Shas
    /\ ~be_updated
    /\ fe_updated
    /\ fe_last_sha \in Shas

\* C8: the poll that follows a successful cycle reports a repository not
\* changed if it returns for it the revision that cycle recorded.
C8_NotChangedAfterCommit ==
    [][(pc = "check" /\ pc' = "polled" /\ outcome = "success")
          => /\ (fe_sha \in Shas /\ fe_sha' = fe_sha) => ~fe_updated'
             /\ (be_sha \in Shas /\ be_sha' = be_sha) => ~be_updated']_vars

\* C8 witness: after a successful cycle the poll returned the recorded
\* revision for the frontend and a new one for the backend.
C8_Witness ==
    /\ pc = "polled"
    /\ prev_outcome = "success"
    /\ fe_sha \in Shas
    /\ fe_sha = fe_last_sha
    /\ ~fe_updated
    /\ be_updated

\* The order of the pipeline's stages.
C9_Order == <<"clone_fe", "clone_be", "setup_backend", "setup_frontend",
              "build_docker_images", "deploy">>

\* C9: the steps a cycle has executed are a prefix of fetch frontend, fetch
\* backend, prepare backend, prepare frontend, build images, deploy; every
\* executed step but the last succeeded; after a failed step the agent has
\* ended with a failure and trigger_redeploy has returned False.
C9_StagesInOrder ==
    /\ Len(ran) <= Len(C9_Order)
    /\ \A i \in 1..Len(ran) : ran[i].stage = C9_Order[i]
    /\ \A i \in 1..(Len(ran) - 1) : ran[i].ok
    /\ (ran # <<>> /\ ~ran[Len(ran)].ok)
        => (pc = "returned" /\ result = FALSE /\ outcome = ran[Len(ran)].stage)
    /\ pc = "rebuild" => (Len(ran) = Len(C9_Order) /\ ran[Len(ran)].ok)

\* C9 witness: the build failed after the four steps before it succeeded,
\* and deploy was not executed.
C9_Witness ==
    /\ Len(ran) = 5
    /\ ~ran[5].ok
    /\ pc = "returned"

\* cs holds a build command.
C10_Builds(cs) == \E i \in 1..Len(cs) : cs[i].verb = "build"

\* C10: build_docker_images issues a build command only if the manifest
\* exists, the frontend tree exists and is not empty, and the backend tree
\* exists, is not empty and holds requirements.txt; otherwise it fails and
\* issues no command.
C10_BuildGate ==
    [][LET gate == /\ manifest
                   /\ frontend_dir = "content"
                   /\ backend_dir = "content"
                   /\ be_requirements
       IN /\ (~C10_Builds(cmds) /\ C10_Builds(cmds')) => gate
          /\ (pc = "agent" /\ stage = 5 /\ Len(ran') = 5 /\ ~gate)
               => (~ran'[5].ok /\ cmds' = cmds /\ pc' = "returned")]_vars

\* C10 witness: build_docker_images has failed without a command because
\* the frontend tree was emptied, the manifest and the backend being in place.
C10_Witness ==
    /\ pc = "returned"
    /\ outcome = "build_docker_images"
    /\ cmds = <<>>
    /\ manifest
    /\ frontend_dir = "empty"
    /\ backend_dir = "content"
    /\ be_requirements

\* _merge_directories has been called and has returned without raising.
MergeCompleted ==
    /\ "merge" \in fs_ops
    /\ fpc \in {"cleanup", "verify", "returned"}
    /\ ~raised

\* C11: while and after an archive is fetched into a target tree that
\* existed, every path that existed in the target and is absent from the
\* fetched tree still holds what it held when the fetch began.
C11_TargetOnlyPathsKept ==
    target0["."] = "dir"
        => \A p \in Paths :
              (target0[p] # "absent" /\ fetched[p] = "absent") => target[p] = target0[p]

\* C12: a file with a locally-owned name that existed in the target is never
\* overwritten; and once the merge has completed, every other file of the
\* fetched tree (a locally-owned name that was absent from the target too)
\* is in the target, at its path, with the fetched content.
C12_PreservedAndOverlaid ==
    /\ \A p \in Paths :
          (Name(p) \in preserve_files /\ IsFile(target0[p])) => target[p] = target0[p]
    /\ MergeCompleted
        => \A p \in Paths :
              (IsFile(fetched[p]) /\ ~(Name(p) \in preserve_files /\ target0[p] # "absent"))
                  => target[p] = fetched[p]

\* C13: a fetch whose archive holds an empty root folder returns False and
\* has neither merged nor renamed, whether or not the target existed.
C13_EmptyRootFails ==
    (fpc = "returned" /\ zip_kind = "tree" /\ fetched = EmptyRoot)
        => (~fetch_result /\ fs_ops = {})

\* The loop of DeployWatcher.run has been left.
Exited == pc \in {"exit0", "exit1"}

\* C14: the watcher process ends only by a KeyboardInterrupt; whatever an
\* iteration ran into (a failed poll, a malformed url, a failed step of the
\* agent, its timeout, a failed or raising rebuild), the loop goes on from
\* the poll to the cycle or the sleep, from the cycle to the sleep, and from
\* the sleep to the next poll.
C14_ErrorsNeverEndTheLoop ==
    [][/\ (~Exited /\ Exited') => outcome' = "interrupted"
       /\ (~Exited' /\ pc' # pc)
            => /\ pc = "check" => pc' = "polled"
               /\ (pc = "polled" /\ ~has_updates) => pc' = "sleep"
               /\ pc = "agent" => pc' \in {"rebuild", "returned"}
               /\ pc = "rebuild" => pc' = "returned"
               /\ pc = "returned" => pc' = "sleep"
               /\ pc = "sleep" => pc' = "check"]_vars

\* C14 witness: the iteration after a cycle that ended in the agent's
\* timeout has polled.
C14_Witness ==
    /\ pc = "polled"
    /\ prev_outcome = "timeout"

\* C15: when the pipeline of a cycle begins, no command started by an
\* earlier cycle (by its agent or by a command the agent spawned) is still
\* running.
C15_NothingLeftRunning ==
    (pc = "agent" /\ ran = <<>>) => ~orphan

\* C17: every deploy cycle ends, whatever hangs: from the start of a cycle
\* the watcher reaches the sleep that follows it, the cycle having succeeded
\* or failed.
C17_CycleTerminates ==
    (pc = "agent") ~> (pc = "sleep" /\ outcome \in {"success"} \cup FailPoints)

\* C17 witness: a cycle whose agent hung in a spawned command has been ended
\* by the timeout and the watcher sleeps.
C17_Witness ==
    /\ pc = "sleep"
    /\ outcome = "timeout"
    /\ orphan

\* The cycle that has just returned ran into a timeout: of the agent, or of
\* a rebuild command of trigger_redeploy.
C16_TimedOut ==
    \/ outcome = "timeout"
    \/ \E i \in 1..Len(rebuild_runs) : rebuild_runs[i].ended = "timeout"

\* C16: a cycle in which the agent or a rebuild command timed out returns
\* False (so that the tracked revisions stay as they are), and the command
\* that timed out is the last build or bring-up command of the cycle.
C16_TimeoutEndsCycle ==
    (pc = "returned" /\ C16_TimedOut)
        => /\ result = FALSE
           /\ \A i \in 1..Len(rebuild_runs) :
                 rebuild_runs[i].ended = "timeout" => i = Len(rebuild_runs)

\* C18: a KeyboardInterrupt delivered during the sleep ends the watcher the
\* way one delivered inside the loop's try block does, with exit code 0.
C18_InterruptInSleepIsClean ==
    [][(pc = "sleep" /\ Exited') => pc' = "exit0"]_vars

\* C19: with a missing token or a malformed repository url the watcher never
\* enters its polling loop.
C19_ConfigErrorIsFatal ==
    (~github_token \/ ~fe_url_ok \/ ~be_url_ok)
        => pc \notin {"check", "polled", "agent", "rebuild", "returned", "sleep"}

\* C20: every request sent to the hosting API carries the authorization
\* token; and without a token a fetch fails without a request and leaves the
\* working trees as they are.
C20_EveryRequestAuthorized ==
    [][/\ \A r \in api_log' : r.auth
       /\ (~github_token /\ Len(ran') > Len(ran))
            => /\ ~ran'[Len(ran')].ok
               /\ api_log' = api_log
               /\ UNCHANGED tree_vars]_vars

\* C21: every bring-up command of a cycle, the agent's and the watcher's
\* alike, carries --no-deps.
C21_UpCarriesNoDeps ==
    \A i \in 1..Len(cmds) : cmds[i].verb = "up" => "--no-deps" \in cmds[i].flags

\* C22: every build and bring-up command names the services frontend and
\* backend and no other, every stop and remove command one of the containers
\* jalin-frontend and jalin-backend, and every command of the orchestrator,
\* in either command-line form, carries the project name jalindeploy.
C22_OnlyManagedServicesOneProject ==
    \A i \in 1..Len(cmds) :
        LET c == cmds[i]
        IN /\ c.verb \in {"build", "up"} => c.targets = {"frontend", "backend"}
           /\ c.verb \in {"stop", "rm"}
                => (c.targets # {} /\ c.targets \subseteq {"jalin-frontend", "jalin-backend"})
           /\ c.tool \in {"docker compose", "docker-compose"}
                => (c.project = "jalindeploy" /\ c.project_flag \in {"-p", "--project-name"})

\* C22 witness: a cycle has issued stop, remove, build and bring-up commands,
\* using both command-line forms of the orchestrator.
C22_Witness ==
    /\ pc = "returned"
    /\ \E i \in 1..Len(cmds) : cmds[i].verb = "build" /\ cmds[i].tool = "docker compose"
    /\ \E i \in 1..Len(cmds) : cmds[i].verb = "up" /\ cmds[i].tool = "docker-compose"
    /\ \E i \in 1..Len(cmds) : cmds[i].verb = "rm"
    /\ \E i \in 1..Len(cmds) : cmds[i].verb = "stop"

\* C23: when clone_repository has returned, by whatever path, the temporary
\* archive file and the temporary extraction directory do not exist.
C23_TemporariesRemoved ==
    fpc = "returned" => (~tmp_zip /\ ~extract_temp)

\* The positions in cmds of the commands with verb v.
C24_Issued(v) == {i \in 1..Len(cmds) : cmds[i].verb = v}

\* C24: each step of a cycle runs its build or bring-up command in one
\* command-line form only: the agent issues one build and one bring-up
\* command, and the watcher's rebuild runs the older form only if the newer
\* one was not run, its probe having failed.
C24_OneFormPerStep ==
    /\ \A i, j \in C24_Issued("build") : i = j
    /\ \A i, j \in C24_Issued("up") :
          ("--no-deps" \in cmds[i].flags /\ "--no-deps" \in cmds[j].flags) => i = j
    /\ \A i, j \in 1..Len(rebuild_runs) : rebuild_runs[i].tool = rebuild_runs[j].tool

\* The commands with verb v among those the call of deploy issued.
C25_Issued(v) == {i \in 1..Len(deploy_out[1].cmds) : deploy_out[1].cmds[i].verb = v}

\* C25: whatever stop, rm, prune and rmi do, deploy runs the bring-up and
\* returns (True iff the bring-up exits with code 0), and cleanup commands
\* are issued only after a bring-up that succeeded.
C25_OutcomeIsTheBringUp ==
    deploy_out # <<>>
        => /\ ~deploy_out[1].raised
           /\ C25_Issued("up") # {}
           /\ deploy_out[1].ok <=> deploy_in.up_ok
           /\ \A i \in C25_Issued("image prune") \cup C25_Issued("rmi") :
                 /\ deploy_in.up_ok
                 /\ \E j \in C25_Issued("up") : j < i

\* C26: of the calls of shutil.copy2 for one file there are at most two; a
\* first call that raises PermissionError is followed by exactly one more,
\* any other first call by none; and if the last call did not copy, the
\* merge has raised and clone_repository returns False.
C26_PermissionErrorRetriedOnce ==
    copy_log # <<>>
        => /\ Len(copy_log) <= 2
           /\ copy_log[1] = "PermissionError" => Len(copy_log) = 2
           /\ copy_log[1] # "PermissionError" => Len(copy_log) = 1
           /\ copy_log[Len(copy_log)] # "ok"
                => /\ raised
                   /\ fpc \in {"cleanup", "returned"}
                   /\ fpc = "returned" => ~fetch_result

\* C27: a cycle issues at most one bring-up command, and a cycle whose
\* trigger_redeploy returned False has not brought the services up with the
\* fetched code (its deploy step did not succeed).
C27_OneBringUpPerCycle ==
    /\ \A i, j \in 1..Len(cmds) : (cmds[i].verb = "up" /\ cmds[j].verb = "up") => i = j
    /\ (pc = "returned" /\ result = FALSE)
          => \A i \in 1..Len(ran) : ~(ran[i].stage = "deploy" /\ ran[i].ok)

\* C28: after a successful cycle the revision the tracker holds for a
\* repository is not newer than the one that cycle downloaded, whatever was
\* pushed meanwhile; and an upstream revision newer than the downloaded one
\* is newer than the tracked one too, so that a later poll reports a change.
C28_TrackedNotNewerThanDeployed ==
    (pc = "sleep" /\ outcome = "success")
        => \A r \in Repos :
              /\ versions.kept[r] <= versions.got[r]
              /\ versions.ver[r] > versions.got[r] => versions.ver[r] > versions.kept[r]

\* C29: the branch whose archive clone_repository requests for a repository
\* is the branch get_latest_commit_sha polls for it.
C29_PolledBranchIsDeployedBranch ==
    \A r \in Repos : versions.branch[r] \in {"none", polled_branch}

\* C30: a tracked revision that is known stays known in every step; and the
\* step that ends a successful cycle whose poll returned no revision for one
\* repository and a changed one for the other keeps the first's tracked
\* revision and sets the other's to the polled one.
C30_KnownStaysKnown ==
    [][/\ fe_last_sha \in Shas => fe_last_sha' \in Shas
       /\ be_last_sha \in Shas => be_last_sha' \in Shas
       /\ (pc = "returned" /\ result = TRUE /\ pc' = "sleep" /\ fe_sha = None /\ be_updated)
            => (fe_last_sha' = fe_last_sha /\ be_last_sha' = be_sha)
       /\ (pc = "returned" /\ result = TRUE /\ pc' = "sleep" /\ be_sha = None /\ fe_updated)
            => (be_last_sha' = be_last_sha /\ fe_last_sha' = fe_sha)]_vars

\* C30 witness: a cycle triggered by the backend has succeeded while the
\* poll of the frontend had failed; the frontend's tracked revision is still
\* the known one and the backend's is the polled one.
C30_Witness ==
    /\ pc = "sleep"
    /\ outcome = "success"
    /\ fe_sha = None
    /\ fe_last_sha \in Shas
    /\ be_updated
    /\ be_last_sha = be_sha

====
